---- MODULE Spec2Model ----
(***************************************************************************)
(* A model of PhoneNumberMatcher (cpp/src/phonenumbers/phonenumbermatcher.cc):*)
(* the has_next / next iterator, the find loop, candidate classification,  *)
(* parse-and-verify, inner-match extraction and the leniency verifier.     *)
(*                                                                         *)
(* Strings are sequences of one-character strings; every character of the  *)
(* modelled texts is ASCII, so byte offsets and character offsets agree.   *)
(* Offsets are 0-based as in the source; s[i+1] is the byte at offset i.   *)
(***************************************************************************)
EXTENDS Integers, Sequences, FiniteSets, TLC

(***************************************************************************)
(* Small string helpers (std::string operations used by the source).       *)
(***************************************************************************)

\* std::string::substr(pos, n)
Substr(s, pos, n) == SubSeq(s, pos + 1, pos + n)

\* std::string::substr(pos)
SubstrFrom(s, pos) == SubSeq(s, pos + 1, Len(s))

Min(a, b) == IF a < b THEN a ELSE b

Max(a, b) == IF a > b THEN a ELSE b

\* Whether needle occurs in hay at offset p.
OccursAt(hay, needle, p) ==
  /\ p + Len(needle) <= Len(hay)
  /\ \A k \in 1..Len(needle) : hay[p + k] = needle[k]

NPos == -1

\* std::string::find(needle, from): the first offset >= from, or npos.
StrFind(hay, needle, from) ==
  LET hits == {p \in from..Len(hay) : OccursAt(hay, needle, p)}
  IN IF hits = {} THEN NPos ELSE CHOOSE p \in hits : \A q \in hits : p <= q

\* HasPrefixString / HasSuffixString (stringutil)
HasPrefixString(s, prefix) == OccursAt(s, prefix, 0)

HasSuffixString(s, suffix) ==
  Len(suffix) <= Len(s) /\ OccursAt(s, suffix, Len(s) - Len(suffix))

\* The first occurrences of a sequence's elements, in order.
RECURSIVE DedupAcc(_, _, _)
DedupAcc(q, k, acc) ==
  IF k > Len(q) THEN acc
  ELSE IF \E j \in 1..Len(acc) : acc[j] = q[k]
       THEN DedupAcc(q, k + 1, acc)
       ELSE DedupAcc(q, k + 1, Append(acc, q[k]))

Dedup(q) == IF Len(q) <= 1 THEN q ELSE DedupAcc(q, 1, <<>>)

(***************************************************************************)
(* The regular-expression engine (RegExp / RegExpInput, a backtracking     *)
(* engine with greedy quantifiers).  A pattern is a tree:                  *)
(*   Set(S)  one character of S          NSet(S)  one character not in S   *)
(*   Cat(<<r1,..>>)  concatenation       Alt(<<r1,..>>)  ordered choice    *)
(*   Rep(r, lo, hi)  greedy r{lo,hi}; hi = Unbounded for r{lo,}            *)
(*   Eol  the anchor $                                                     *)
(* Ends(r, s, i) lists the offsets at which a match of r starting at       *)
(* offset i can end, in the engine's order of preference.                  *)
(***************************************************************************)

Unbounded == -1

Set(S) == [k |-> "set", s |-> S]

NSet(S) == [k |-> "nset", s |-> S]

Cat(rs) == [k |-> "cat", rs |-> rs]

Alt(rs) == [k |-> "alt", rs |-> rs]

Rep(r, lo, hi) == [k |-> "rep", r |-> r, lo |-> lo, hi |-> hi]

Eol == [k |-> "eol"]

Opt(r) == Rep(r, 0, 1)

IsCharPattern(r) == r.k \in {"set", "nset"}

CharMatches(r, c) == IF r.k = "set" THEN c \in r.s ELSE c \notin r.s

\* Length of the run of characters matching r from offset i.
RECURSIVE RunLength(_, _, _)
RunLength(r, s, i) ==
  IF i < Len(s) /\ CharMatches(r, s[i + 1]) THEN 1 + RunLength(r, s, i + 1) ELSE 0

\* <<hi, hi-1, ..., lo>>
Descending(hi, lo) == [k \in 1..(hi - lo + 1) |-> hi - k + 1]

RECURSIVE Ends(_, _, _), MapEnds(_, _, _, _), CatEnds(_, _, _, _),
          AltEnds(_, _, _, _), RepBounded(_, _, _, _, _),
          MapBounded(_, _, _, _, _, _), StarTable(_, _, _, _, _),
          MapStar(_, _, _)

\* The ends of r from each of the starts, in order.
MapEnds(r, s, starts, j) ==
  IF j > Len(starts) THEN <<>>
  ELSE Ends(r, s, starts[j]) \o MapEnds(r, s, starts, j + 1)

CatEnds(rs, k, s, starts) ==
  IF k > Len(rs) \/ starts = <<>> THEN starts
  ELSE CatEnds(rs, k + 1, s, Dedup(MapEnds(rs[k], s, starts, 1)))

AltEnds(rs, k, s, i) ==
  IF k > Len(rs) THEN <<>>
  ELSE Ends(rs[k], s, i) \o AltEnds(rs, k + 1, s, i)

\* One more iteration of r that consumes something.
Progress(r, s, i) == SelectSeq(Ends(r, s, i), LAMBDA e : e > i)

\* r{lo,hi} with a bound that can bind: iterate first, stop last.
RepBounded(r, lo, hi, s, i) ==
  LET more == IF hi = 0 THEN <<>>
              ELSE MapBounded(r, Max(lo - 1, 0), hi - 1, s, Progress(r, s, i), 1)
  IN Dedup(more \o (IF lo = 0 THEN <<i>> ELSE <<>>))

MapBounded(r, lo, hi, s, starts, j) ==
  IF j > Len(starts) THEN <<>>
  ELSE RepBounded(r, lo, hi, s, starts[j]) \o MapBounded(r, lo, hi, s, starts, j + 1)

\* r* from every offset low..Len(s), computed from the end of the input back.
MapStar(tab, starts, j) ==
  IF j > Len(starts) THEN <<>>
  ELSE tab[starts[j]] \o MapStar(tab, starts, j + 1)

StarTable(r, s, q, low, tab) ==
  IF q < low THEN tab
  ELSE StarTable(r, s, q - 1, low,
         (q :> Dedup(Append(MapStar(tab, Progress(r, s, q), 1), q))) @@ tab)

\* r{lo,} (or a bound that cannot bind): lo iterations, then r*.
Lowest(starts) ==
  CHOOSE p \in {starts[k] : k \in 1..Len(starts)} :
    \A k \in 1..Len(starts) : p <= starts[k]

\* r* from each of the starts, in order.
StarFrom(r, s, starts) ==
  IF starts = <<>> THEN <<>>
  ELSE IF Len(starts) = 1 /\ Progress(r, s, starts[1]) = <<>> THEN starts
  ELSE Dedup(MapStar(StarTable(r, s, Len(s), Lowest(starts), <<>>), starts, 1))

RepUnbounded(r, lo, s, i) ==
  StarFrom(r, s, CatEnds([k \in 1..lo |-> r], 1, s, <<i>>))

Ends(r, s, i) ==
  CASE r.k \in {"set", "nset"} ->
         IF i < Len(s) /\ CharMatches(r, s[i + 1]) THEN <<i + 1>> ELSE <<>>
    [] r.k = "eol" -> IF i = Len(s) THEN <<i>> ELSE <<>>
    [] r.k = "cat" -> CatEnds(r.rs, 1, s, <<i>>)
    [] r.k = "alt" -> Dedup(AltEnds(r.rs, 1, s, i))
    [] r.k = "rep" ->
         IF IsCharPattern(r.r)
         THEN LET run == RunLength(r.r, s, i)
                  top == IF r.hi = Unbounded THEN run ELSE Min(run, r.hi)
              IN IF top < r.lo THEN <<>> ELSE Descending(i + top, i + r.lo)
         ELSE IF r.hi = Unbounded \/ r.hi >= Len(s) - i
              THEN RepUnbounded(r.r, r.lo, s, i)
              ELSE RepBounded(r.r, r.lo, r.hi, s, i)

(***************************************************************************)
(* The RegExp interface.  An input is the string with a cursor offset; the *)
(* text the source reads back with RegExpInput::ToString() is the part     *)
(* from the cursor on.                                                     *)
(***************************************************************************)

NoMatch == [found |-> FALSE, start |-> 0, end |-> 0]

\* RegExp::FullMatch(s)
EndsAt(ends, e) == \E k \in 1..Len(ends) : ends[k] = e

FullMatch(r, s) == EndsAt(Ends(r, s, 0), Len(s))

\* RegExp::PartialMatch(s): a match starting anywhere.
PartialMatch(r, s) == \E p \in 0..Len(s) : Ends(r, s, p) # <<>>

\* RegExp::Consume(input): a match anchored at the cursor.
Preferred(pos, ends) ==
  IF ends = <<>> THEN NoMatch ELSE [found |-> TRUE, start |-> pos, end |-> ends[1]]

Consume(r, s, pos) == Preferred(pos, Ends(r, s, pos))

\* RegExp::FindAndConsume(input): the leftmost match at or after the cursor;
\* the cursor moves to its end.
RECURSIVE FindAndConsume(_, _, _)

MatchOrLater(r, s, pos, m) == IF m.found THEN m ELSE FindAndConsume(r, s, pos + 1)

FindAndConsume(r, s, pos) ==
  IF pos > Len(s) THEN NoMatch ELSE MatchOrLater(r, s, pos, Consume(r, s, pos))

(***************************************************************************)
(* Character classes over the modelled (ASCII) characters.                 *)
(***************************************************************************)

\* \d and \p{Nd}
Digits == {"0", "1", "2", "3", "4", "5", "6", "7", "8", "9"}

\* \p{Z} and \s
Spaces == {" "}

\* PhoneNumberUtil::kPlusChars
kPlusChars == {"+"}

\* PhoneNumberUtil::kValidPunctuation
kValidPunctuation == {"-", "x", " ", "(", ")", "[", "]", ".", "/", "~"}

\* PhoneNumberUtil::kMaxLengthForNsn, kMaxLengthCountryCode
kMaxLengthForNsn == 17

kMaxLengthCountryCode == 3

(***************************************************************************)
(* PhoneNumberMatcherRegExps: the patterns, built as the constructor       *)
(* builds them.                                                            *)
(***************************************************************************)

opening_parens == {"(", "["}

closing_parens == {")", "]"}

non_parens == NSet(opening_parens \cup closing_parens)

\* Limit(0, 3)
bracket_pair_limit == 3

leading_maybe_matched_bracket ==
  Cat(<<Opt(Set(opening_parens)),
        Opt(Cat(<<Rep(non_parens, 1, Unbounded), Set(closing_parens)>>))>>)

bracket_pairs ==
  Rep(Cat(<<Set(opening_parens), Rep(non_parens, 1, Unbounded),
            Set(closing_parens)>>), 0, bracket_pair_limit)

\* Limit(0, 2)
lead_limit == 2

\* Limit(0, 4)
punctuation_limit == 4

digit_block_limit == kMaxLengthForNsn + kMaxLengthCountryCode

punctuation == Rep(Set(kValidPunctuation), 0, punctuation_limit)

digit_sequence == Rep(Set(Digits), 1, digit_block_limit)

lead_class_chars == opening_parens \cup kPlusChars

lead_class == Set(lead_class_chars)

opening_punctuation == Cat(<<lead_class, punctuation>>)

\* PhoneNumberUtil::GetExtnPatternsForMatching(), the "x" form:
\* [ ]*x[ -]*(\d{1,9})
kMaxExtnDigits == 9

ExtnPatternsForMatching ==
  Cat(<<Rep(Set({" "}), 0, Unbounded), Set({"x"}),
        Rep(Set({" ", "-"}), 0, Unbounded), Rep(Set(Digits), 1, kMaxExtnDigits)>>)

optional_extn_pattern == Opt(ExtnPatternsForMatching)

\* \d{1,5}-+\d{1,5}\s{0,4}\(\d{1,4}
pub_pages ==
  Cat(<<Rep(Set(Digits), 1, 5), Rep(Set({"-"}), 1, Unbounded),
        Rep(Set(Digits), 1, 5), Rep(Set(Spaces), 0, 4), Set({"("}),
        Rep(Set(Digits), 1, 4)>>)

\* (?:(?:[0-3]?\d/[01]?\d)|(?:[01]?\d/[0-3]?\d))/(?:[12]\d)?\d{2}
slash_separated_dates ==
  Cat(<<Alt(<<Cat(<<Opt(Set({"0", "1", "2", "3"})), Set(Digits), Set({"/"}),
                    Opt(Set({"0", "1"})), Set(Digits)>>),
              Cat(<<Opt(Set({"0", "1"})), Set(Digits), Set({"/"}),
                    Opt(Set({"0", "1", "2", "3"})), Set(Digits)>>)>>),
        Set({"/"}),
        Opt(Cat(<<Set({"1", "2"}), Set(Digits)>>)),
        Rep(Set(Digits), 2, 2)>>)

\* [12]\d{3}[-/]?[01]\d[-/]?[0-3]\d [0-2]\d$
time_stamps ==
  Cat(<<Set({"1", "2"}), Rep(Set(Digits), 3, 3), Opt(Set({"-", "/"})),
        Set({"0", "1"}), Set(Digits), Opt(Set({"-", "/"})),
        Set({"0", "1", "2", "3"}), Set(Digits), Set({" "}),
        Set({"0", "1", "2"}), Set(Digits), Eol>>)

\* :[0-5]\d
time_stamps_suffix ==
  Cat(<<Set({":"}), Set({"0", "1", "2", "3", "4", "5"}), Set(Digits)>>)

matching_brackets ==
  Cat(<<leading_maybe_matched_bracket, Rep(non_parens, 1, Unbounded),
        bracket_pairs, Rep(non_parens, 0, Unbounded)>>)

\* \p{Z}[^lead_class_chars\p{Nd}]*
group_separator ==
  Cat(<<Set(Spaces), Rep(NSet(lead_class_chars \cup Digits), 0, Unbounded)>>)

\* (\d+)
capturing_ascii_digits_pattern == Rep(Set(Digits), 1, Unbounded)

lead_class_pattern == lead_class

\* The phone number pattern allowing optional punctuation.
pattern ==
  Cat(<<Rep(opening_punctuation, 0, lead_limit), digit_sequence,
        Rep(Cat(<<punctuation, digit_sequence>>), 0, digit_block_limit),
        optional_extn_pattern>>)

\* PhoneNumberUtil::kCaptureUpToSecondNumberStart, "(.*)[\\/] *x": the
\* capture is the longest prefix that "[\\/] *x" can follow.
second_number_start ==
  Cat(<<Set({"\\", "/"}), Rep(Set({" "}), 0, Unbounded), Set({"x"})>>)

\* The capture when r is tried after the first e characters, then after
\* fewer; the whole of s when r follows no prefix.
RECURSIVE CaptureBefore(_, _, _)
CaptureBefore(r, s, e) ==
  IF e < 0 THEN s
  ELSE IF Ends(r, s, e) # <<>> THEN Substr(s, 0, e) ELSE CaptureBefore(r, s, e - 1)

\* capture_up_to_second_number_start_pattern_->PartialMatch(candidate,
\* &candidate): the candidate is rewritten only when the pattern matches.
CaptureUpToSecondNumberStart(candidate) ==
  CaptureBefore(second_number_start, candidate, Len(candidate))

(***************************************************************************)
(* PhoneNumberUtil, the parser and validator the matcher calls.  Its code  *)
(* is outside the matcher; it is modelled here for one region whose        *)
(* numbering plan is small enough to enumerate:                            *)
(*   country calling code 2, national prefix 1,                            *)
(*   national significant numbers of 3 digits, valid when they start 2,    *)
(*   format 2-1X ("($1)" rule) for 21X and 22-X ("1$1" rule) for 22X.      *)
(***************************************************************************)

kCountryCode == <<"2">>

kNationalPrefix == <<"1">>

kNsnLength == 3

kMinLengthForNsn == 2

\* PhoneNumberUtil::NormalizeDigitsOnly
NormalizeDigitsOnly(s) == SelectSeq(s, LAMBDA c : c \in Digits)

\* NormalizeUTF8::NormalizeDecimalDigits: decimal digits become ASCII digits
\* and every other character is kept; the modelled digits are ASCII already.
NormalizeDecimalDigits(s) == [k \in 1..Len(s) |-> s[k]]

\* PhoneNumberUtil::TrimUnwantedEndChars: characters that are not a number,
\* a letter or '#' are dropped from the end.
Letters == {"x"}

IsUnwantedEndChar(c) == c \notin (Digits \cup Letters \cup {"#"})

RECURSIVE TrimUnwantedEndChars(_)
TrimUnwantedEndChars(s) ==
  IF s # <<>> /\ IsUnwantedEndChar(s[Len(s)])
  THEN TrimUnwantedEndChars(SubSeq(s, 1, Len(s) - 1))
  ELSE s

IsValidNsn(nsn) == Len(nsn) = kNsnLength /\ nsn[1] = "2"

\* PhoneNumberUtil::TestNumberLength
TestNumberLength(nsn) ==
  IF Len(nsn) < kNsnLength THEN "TOO_SHORT"
  ELSE IF Len(nsn) > kNsnLength THEN "TOO_LONG" ELSE "IS_POSSIBLE"

\* PhoneNumberUtil::MaybeStripNationalPrefixAndCarrierCode: the digits
\* without the national prefix, unless stripping turns a valid number into
\* an invalid one.
HasNationalPrefix(digits) ==
  /\ HasPrefixString(digits, kNationalPrefix)
  /\ ~(IsValidNsn(digits) /\ ~IsValidNsn(SubstrFrom(digits, Len(kNationalPrefix))))

MaybeStripNationalPrefixAndCarrierCode(digits) == HasNationalPrefix(digits)

StripNationalPrefix(digits) ==
  IF HasNationalPrefix(digits)
  THEN SubstrFrom(digits, Len(kNationalPrefix)) ELSE digits

\* PhoneNumberUtil::MaybeStripExtension: an extension sign followed by digits
\* at the end of a number that is viable without it.
ExtnAtEnd == Cat(<<ExtnPatternsForMatching, Eol>>)

CountDigits(s) == Len(NormalizeDigitsOnly(s))

IsViablePhoneNumber(s) == CountDigits(s) >= kMinLengthForNsn

ExtensionAt(s, m) ==
  IF m.found /\ IsViablePhoneNumber(Substr(s, 0, m.start)) THEN m.start ELSE NPos

ExtensionStart(s) == ExtensionAt(s, FindAndConsume(ExtnAtEnd, s, 0))

EmptyNumber ==
  [country_code |-> <<>>, national_number |-> <<>>, extension |-> <<>>,
   has_extension |-> FALSE, country_code_source |-> "UNSPECIFIED",
   raw_input |-> <<>>]

ParseError == [error |-> TRUE, number |-> EmptyNumber]

\* PhoneNumberUtil::ExtractPossibleNumber: from the first digit or plus sign.
FromMatch(s, m) == IF m.found THEN SubstrFrom(s, m.start) ELSE <<>>

ExtractPossibleNumber(candidate) ==
  FromMatch(candidate, FindAndConsume(Set(Digits \cup kPlusChars), candidate, 0))

\* PhoneNumberUtil::MaybeExtractCountryCode for a number without a plus sign:
\* the country code is taken off when what is left is valid and the whole was
\* not, or when the whole is too long.
HasCountryCodeWithoutPlusSign(digits) ==
  /\ HasPrefixString(digits, kCountryCode)
  /\ \/ /\ ~IsValidNsn(digits)
        /\ IsValidNsn(StripNationalPrefix(SubstrFrom(digits, Len(kCountryCode))))
     \/ TestNumberLength(digits) = "TOO_LONG"

\* The digits after the country code, and where the country code came from.
NationalPart(plus, digits) ==
  IF plus
  THEN [digits |-> SubstrFrom(digits, Len(kCountryCode)),
        source |-> "FROM_NUMBER_WITH_PLUS_SIGN"]
  ELSE IF HasCountryCodeWithoutPlusSign(digits)
  THEN [digits |-> StripNationalPrefix(SubstrFrom(digits, Len(kCountryCode))),
        source |-> "FROM_NUMBER_WITHOUT_PLUS_SIGN"]
  ELSE [digits |-> digits, source |-> "FROM_DEFAULT_COUNTRY"]

\* The national significant number: the national prefix is stripped unless
\* that leaves too short a number.
NationalSignificantNumber(national) ==
  IF TestNumberLength(StripNationalPrefix(national)) = "TOO_SHORT"
  THEN national ELSE StripNationalPrefix(national)

ParsedNumber(candidate, nsn, ext, source) ==
  IF Len(nsn) < kMinLengthForNsn \/ Len(nsn) > kMaxLengthForNsn THEN ParseError
  ELSE [error |-> FALSE,
        number |-> [country_code |-> kCountryCode, national_number |-> nsn,
                    extension |-> ext, has_extension |-> ext # <<>>,
                    country_code_source |-> source, raw_input |-> candidate]]

ParseNational(candidate, part, ext) ==
  ParsedNumber(candidate, NationalSignificantNumber(part.digits), ext, part.source)

ParseBody(candidate, body, ext) ==
  IF /\ body # <<>>
     /\ body[1] \in kPlusChars
     /\ ~HasPrefixString(NormalizeDigitsOnly(body), kCountryCode)
  THEN ParseError
  ELSE ParseNational(candidate,
                     NationalPart(body # <<>> /\ body[1] \in kPlusChars,
                                  NormalizeDigitsOnly(body)),
                     ext)

ParsePossibleNumber(candidate, possible, extAt) ==
  IF ~IsViablePhoneNumber(possible) THEN ParseError
  ELSE IF extAt = NPos THEN ParseBody(candidate, possible, <<>>)
  ELSE ParseBody(candidate, Substr(possible, 0, extAt),
                 NormalizeDigitsOnly(SubstrFrom(possible, extAt)))

\* PhoneNumberUtil::ParseAndKeepRawInput(candidate, preferred_region, &number)
ParseFrom(candidate, possible) ==
  ParsePossibleNumber(candidate, possible, ExtensionStart(possible))

ParseAndKeepRawInput(candidate) ==
  ParseFrom(candidate, ExtractPossibleNumber(candidate))

\* PhoneNumberUtil::IsPossibleNumber / IsValidNumber
IsPossibleNumber(number) == TestNumberLength(number.national_number) = "IS_POSSIBLE"

IsValidNumber(number) == IsValidNsn(number.national_number)

\* PhoneNumberUtil::GetNationalSignificantNumber
GetNationalSignificantNumber(number) == number.national_number

\* PhoneNumberUtil::ChooseFormattingPatternForNumber: the NumberFormat of the
\* national number, or none.
NoFormat ==
  [found |-> FALSE, first_group |-> 0, national_prefix_formatting_rule |-> <<>>,
   national_prefix_optional_when_formatting |-> FALSE]

ChooseFormattingPatternForNumber(nsn) ==
  IF Len(nsn) = kNsnLength /\ HasPrefixString(nsn, <<"2", "1">>)
  THEN [found |-> TRUE, first_group |-> 1,
        national_prefix_formatting_rule |-> <<"(", "$", "1", ")">>,
        national_prefix_optional_when_formatting |-> FALSE]
  ELSE IF Len(nsn) = kNsnLength /\ HasPrefixString(nsn, <<"2", "2">>)
  THEN [found |-> TRUE, first_group |-> 2,
        national_prefix_formatting_rule |-> <<"1", "$", "1">>,
        national_prefix_optional_when_formatting |-> FALSE]
  ELSE NoFormat

\* PhoneNumberUtil::Format(number, RFC3966): tel:+CC-DG[;ext=EXT]
FormatRfc3966(number) ==
  LET nsn == number.national_number
      fmt == ChooseFormattingPatternForNumber(nsn)
      grouped == IF fmt.found
                 THEN Substr(nsn, 0, fmt.first_group) \o <<"-">>
                        \o SubstrFrom(nsn, fmt.first_group)
                 ELSE nsn
      ext == IF number.has_extension
             THEN <<";", "e", "x", "t", "=">> \o number.extension ELSE <<>>
  IN <<"t", "e", "l", ":", "+">> \o number.country_code \o <<"-">> \o grouped \o ext

\* PhoneNumberUtil::IsNumberMatchWithOneString(number, second)
\* PhoneNumberUtil::IsNumberMatch(first, second)
IsNumberMatch(a, b) ==
  IF a.extension # b.extension THEN "NO_MATCH"
  ELSE IF a.national_number = b.national_number THEN "NSN_MATCH"
  ELSE IF \/ HasSuffixString(a.national_number, b.national_number)
          \/ HasSuffixString(b.national_number, a.national_number)
  THEN "SHORT_NSN_MATCH"
  ELSE "NO_MATCH"

IsNumberMatchWithParsed(number, p) ==
  IF p.error THEN "INVALID_NUMBER" ELSE IsNumberMatch(number, p.number)

\* PhoneNumberUtil::IsNumberMatchWithOneString(number, second)
IsNumberMatchWithOneString(number, second) ==
  IsNumberMatchWithParsed(number, ParseAndKeepRawInput(second))

(***************************************************************************)
(* Unicode character properties (ICU) of the modelled characters.          *)
(***************************************************************************)

u_isalpha(c) == c \in Letters

u_charType(c) ==
  IF c = "$" THEN "U_CURRENCY_SYMBOL"
  ELSE IF c \in Letters THEN "U_LOWERCASE_LETTER"
  ELSE IF c \in Digits THEN "U_DECIMAL_DIGIT_NUMBER"
  ELSE "U_OTHER_PUNCTUATION"

ublock_getCode(c) == "UBLOCK_BASIC_LATIN"

IsInvalidPunctuationSymbol(character) ==
  character = "%" \/ u_charType(character) = "U_CURRENCY_SYMBOL"

IsLatinLetter(letter) ==
  IF ~u_isalpha(letter) /\ u_charType(letter) # "U_NON_SPACING_MARK"
  THEN FALSE
  ELSE ublock_getCode(letter) \in
         {"UBLOCK_BASIC_LATIN", "UBLOCK_LATIN_1_SUPPLEMENT",
          "UBLOCK_LATIN_EXTENDED_A", "UBLOCK_LATIN_EXTENDED_ADDITIONAL",
          "UBLOCK_LATIN_EXTENDED_B", "UBLOCK_COMBINING_DIACRITICAL_MARKS"}

(***************************************************************************)
(* The verifier.                                                           *)
(***************************************************************************)

Leniencies == {"POSSIBLE", "VALID", "STRICT_GROUPING", "EXACT_GROUPING"}

\* The enum's order: POSSIBLE < VALID < STRICT_GROUPING < EXACT_GROUPING.
LeniencyRank(l) ==
  CASE l = "POSSIBLE" -> 0
    [] l = "VALID" -> 1
    [] l = "STRICT_GROUPING" -> 2
    [] l = "EXACT_GROUPING" -> 3

\* SplitStringUsing(s, "-", &result): the non-empty pieces between dashes.
RECURSIVE SplitStringUsing(_, _)
SplitStringUsing(s, delim) ==
  IF s = <<>> THEN <<>>
  ELSE LET at == StrFind(s, <<delim>>, 0)
       IN IF at = NPos THEN <<s>>
          ELSE IF at = 0 THEN SplitStringUsing(SubstrFrom(s, 1), delim)
          ELSE <<Substr(s, 0, at)>> \o SplitStringUsing(SubstrFrom(s, at + 1), delim)

\* The groups of a number formatted as RFC3966: what is between the first
\* dash and the extension, split at the dashes.
GroupsOfRfc3966(rfc3966_format) ==
  LET semi == StrFind(rfc3966_format, <<";">>, 0)
      end_index == IF semi = NPos THEN Len(rfc3966_format) ELSE semi
      start_index == StrFind(rfc3966_format, <<"-">>, 0) + 1
  IN SplitStringUsing(Substr(rfc3966_format, start_index, end_index - start_index),
                      "-")

GetNationalNumberGroups(number) == GroupsOfRfc3966(FormatRfc3966(number))

\* candidate.find_first_of("xX", from)
FindFirstX(candidate, from) ==
  LET hits == {p \in from..(Len(candidate) - 1) : candidate[p + 1] \in {"x", "X"}}
  IN IF hits = {} THEN NPos ELSE CHOOSE p \in hits : \A q \in hits : p <= q

RECURSIVE XCharsLoop(_, _, _)
XCharsLoop(number, candidate, found) ==
  IF ~(found # NPos /\ found < Len(candidate) - 1) THEN TRUE
  ELSE LET next_char == candidate[found + 2]
       IN IF next_char \in {"x", "X"}
          THEN IF IsNumberMatchWithOneString(number, SubstrFrom(candidate, found + 1))
                    # "NSN_MATCH"
               THEN FALSE
               ELSE XCharsLoop(number, candidate,
                               FindFirstX(candidate, found + 2))
          ELSE IF NormalizeDigitsOnly(SubstrFrom(candidate, found)) # number.extension
               THEN FALSE
               ELSE XCharsLoop(number, candidate,
                               FindFirstX(candidate, found + 1))

ContainsOnlyValidXChars(number, candidate) ==
  XCharsLoop(number, candidate, FindFirstX(candidate, 0))

IsNationalPrefixPresentIfRequired(number) ==
  IF number.country_code_source # "FROM_DEFAULT_COUNTRY" THEN TRUE
  ELSE LET national_number == GetNationalSignificantNumber(number)
           format_rule == ChooseFormattingPatternForNumber(national_number)
           rule == format_rule.national_prefix_formatting_rule
           candidate_national_prefix_rule ==
             NormalizeDigitsOnly(Substr(rule, 0, StrFind(rule, <<"$", "1">>, 0)))
       IN IF format_rule.found /\ rule # <<>>
          THEN IF format_rule.national_prefix_optional_when_formatting THEN TRUE
               ELSE IF candidate_national_prefix_rule = <<>> THEN TRUE
               ELSE MaybeStripNationalPrefixAndCarrierCode(
                      NormalizeDigitsOnly(number.raw_input))
          ELSE TRUE

\* FindNth(candidate, '/', 2) != string::npos
HasTwoSlashes(candidate) ==
  Cardinality({k \in 1..Len(candidate) : candidate[k] = "/"}) >= 2

\* The checks VALID makes, which the grouping tiers make too.
PassesValidChecks(number, candidate) ==
  /\ IsValidNumber(number)
  /\ ContainsOnlyValidXChars(number, candidate)

\* STRICT_GROUPING: each formatted group is found, in order, from from_index.
RECURSIVE StrictGroupLoop(_, _, _, _, _)
StrictGroupLoop(number, normalized_candidate, groups, i, from_index) ==
  IF i > Len(groups)
  THEN StrFind(SubstrFrom(normalized_candidate, from_index), number.extension, 0)
         # NPos
  ELSE LET at == IF from_index > Len(normalized_candidate) THEN NPos
                 ELSE StrFind(normalized_candidate, groups[i], from_index)
           next_from == at + Len(groups[i])
       IN IF at = NPos THEN FALSE
          ELSE IF /\ i = 1
                  /\ next_from < Len(normalized_candidate)
                  /\ normalized_candidate[next_from + 1] \in Digits
               THEN HasPrefixString(
                      SubstrFrom(normalized_candidate, next_from - Len(groups[i])),
                      GetNationalSignificantNumber(number))
               ELSE StrictGroupLoop(number, normalized_candidate, groups, i + 1,
                                    next_from)

AllNumberGroupsRemainGrouped(number, candidate) ==
  StrictGroupLoop(number, NormalizeDecimalDigits(candidate),
                  GetNationalNumberGroups(number), 1, 0)

\* The digit blocks of the candidate, by repeated FindAndConsume of (\d+).
RECURSIVE CandidateGroups(_, _)

GroupsFrom(s, m) ==
  IF m.found
  THEN <<Substr(s, m.start, m.end - m.start)>> \o CandidateGroups(s, m.end)
  ELSE <<>>

CandidateGroups(s, pos) ==
  GroupsFrom(s, FindAndConsume(capturing_ascii_digits_pattern, s, pos))

\* EXACT_GROUPING: the loop from the last formatted group down to the second.
RECURSIVE ExactGroupLoop(_, _, _, _)
ExactGroupLoop(candidate_groups, groups, fi, ci) ==
  IF fi > 0 /\ ci >= 0
  THEN IF candidate_groups[ci + 1] # groups[fi + 1] THEN FALSE
       ELSE ExactGroupLoop(candidate_groups, groups, fi - 1, ci - 1)
  ELSE ci >= 0 /\ HasSuffixString(candidate_groups[ci + 1], groups[1])

\* The checks on the digit blocks of the candidate, the last of which that
\* is not the extension has index candidate_number_group_index.
ExactlyPresent(number, candidate_groups, candidate_number_group_index, groups) ==
  IF \/ Len(candidate_groups) = 1
     \/ StrFind(candidate_groups[candidate_number_group_index + 1],
                GetNationalSignificantNumber(number), 0) # NPos
  THEN TRUE
  ELSE ExactGroupLoop(candidate_groups, groups, Len(groups) - 1,
                      candidate_number_group_index)

CandidateNumberGroupIndex(number, candidate_groups) ==
  IF number.has_extension THEN Len(candidate_groups) - 2
  ELSE Len(candidate_groups) - 1

ExactlyPresentIn(number, candidate_groups) ==
  ExactlyPresent(number, candidate_groups,
                 CandidateNumberGroupIndex(number, candidate_groups),
                 GetNationalNumberGroups(number))

AllNumberGroupsAreExactlyPresent(number, candidate) ==
  ExactlyPresentIn(number, CandidateGroups(NormalizeDecimalDigits(candidate), 0))

VerifyAccordingToLeniency(leniency, number, candidate) ==
  CASE leniency = "POSSIBLE" -> IsPossibleNumber(number)
    [] leniency = "VALID" ->
         IF ~PassesValidChecks(number, candidate) THEN FALSE
         ELSE IsNationalPrefixPresentIfRequired(number)
    [] leniency = "STRICT_GROUPING" ->
         IF \/ ~PassesValidChecks(number, candidate)
            \/ HasTwoSlashes(candidate)
            \/ ~IsNationalPrefixPresentIfRequired(number)
         THEN FALSE
         ELSE AllNumberGroupsRemainGrouped(number, candidate)
    [] leniency = "EXACT_GROUPING" ->
         IF \/ ~PassesValidChecks(number, candidate)
            \/ HasTwoSlashes(candidate)
            \/ ~IsNationalPrefixPresentIfRequired(number)
         THEN FALSE
         ELSE AllNumberGroupsAreExactlyPresent(number, candidate)
    [] OTHER -> FALSE

(***************************************************************************)
(* The matcher state.                                                      *)
(***************************************************************************)

VARIABLES
  text,          \* text_
  leniency,      \* leniency_
  budget,        \* the max_tries argument of the constructor
  max_tries,     \* max_tries_
  state,         \* state_: NOT_READY, READY or DONE
  last_match,    \* last_match_: <<>> for NULL, <<m>> for a match
  search_index,  \* search_index_
  call,          \* the last call that returned: "none", "HasNext" or "Next"
  ret,           \* what that call returned
  emitted,       \* the matches Next has copied out, oldest first
  log,           \* the attempts of the last call that ran Find
  before,        \* state_, search_index_, max_tries_, last_match_ before that call
  pc,            \* where the running call is: "idle", "loop" or "separators"
  frame          \* the locals of the running call

vars == <<text, leniency, budget, max_tries, state, last_match, search_index, call,
          ret, emitted, log, before, pc, frame>>

\* A match whose end is taken to be its start.
MatchEndAtStart(m) == m.start

\* PhoneNumberMatch::end()
MatchEnd(m) == m.start + Len(m.raw_string)

NoResult(tries, lg) ==
  [found |-> FALSE, match |-> <<>>, max_tries |-> tries, log |-> lg]

Found(match, tries, lg) ==
  [found |-> TRUE, match |-> match, max_tries |-> tries, log |-> lg]

\* One entry of the log: a ParseAndVerify call ("whole", "head", "tail",
\* "without_last"), a candidate of the phone pattern ("candidate"), or a
\* candidate the classifier dropped ("skipped"); tries is max_tries_ then.
Attempt(kind, candidate, offset, tries, ok) ==
  [kind |-> kind, candidate |-> candidate, offset |-> offset, tries |-> tries,
   ok |-> ok]

(***************************************************************************)
(* ParseAndVerify(candidate, offset, match)                                *)
(***************************************************************************)

\* The checks of the characters around the candidate, for VALID and stricter.
SurroundingsAllowed(txt, candidate, offset) ==
  LET previous_char == txt[offset]
      lastCharIndex == offset + Len(candidate)
      next_char == txt[lastCharIndex + 1]
  IN /\ ~(/\ offset > 0
          /\ ~Consume(lead_class_pattern, candidate, 0).found
          /\ (IsInvalidPunctuationSymbol(previous_char) \/ IsLatinLetter(previous_char)))
     /\ ~(/\ lastCharIndex < Len(txt)
          /\ (IsInvalidPunctuationSymbol(next_char) \/ IsLatinLetter(next_char)))

\* The match ParseAndVerify hands back when p is what the parser made of the
\* candidate.
VerifiedMatch(len, candidate, offset, p) ==
  IF p.error THEN <<>>
  ELSE IF VerifyAccordingToLeniency(len, p.number, candidate)
  THEN <<[start |-> offset, raw_string |-> candidate,
          number |-> [p.number EXCEPT !.country_code_source = "UNSPECIFIED",
                                      !.raw_input = <<>>]]>>
  ELSE <<>>

ParseAndVerify(txt, len, candidate, offset) ==
  IF ~FullMatch(matching_brackets, candidate) THEN <<>>
  ELSE IF LeniencyRank(len) >= LeniencyRank("VALID")
          /\ ~SurroundingsAllowed(txt, candidate, offset)
  THEN <<>>
  ELSE VerifiedMatch(len, candidate, offset, ParseAndKeepRawInput(candidate))

\* What a ParseAndVerify call that gave match leaves: the match, max_tries_,
\* and the call in the log.
Attempted(kind, candidate, offset, tries, lg, match) ==
  [found |-> match # <<>>, match |-> match, max_tries |-> tries,
   log |-> Append(lg, Attempt(kind, candidate, offset, tries, match # <<>>))]

TryCandidate(kind, txt, len, candidate, offset, tries, lg) ==
  Attempted(kind, candidate, offset, tries, lg,
            ParseAndVerify(txt, len, candidate, offset))

(***************************************************************************)
(* ExtractInnerMatch(candidate, offset, match), in three parts: up to the  *)
(* loop over the remaining separators, that loop, and what follows it.     *)
(* pos is the cursor of candidate_input.                                   *)
(***************************************************************************)

\* The length of the candidate up to the separator, the separator left out.
GroupStartIndexBeforeSeparator(candidate, pos) == pos - 1

\* candidate.length() - candidate_input->ToString().length()
GroupStartIndex(candidate, pos) == Len(candidate) - Len(SubstrFrom(candidate, pos))

\* The candidate up to the cursor, without unwanted characters at its end.
CandidateBefore(candidate, pos) ==
  TrimUnwantedEndChars(Substr(candidate, 0, GroupStartIndex(candidate, pos)))

\* candidate_input->ToString(), without unwanted characters at its end.
CandidateAfter(candidate, pos) == TrimUnwantedEndChars(SubstrFrom(candidate, pos))

\* The rest of the candidate tried at the offset of the candidate itself.
WithoutFirstGroupAtCandidateOffset(offset, group_start_index) == offset

\* The offset at which the rest of the candidate, without its first group,
\* is tried.
WithoutFirstGroupOffset(offset, group_start_index) == offset + group_start_index

\* The candidate without its last group tried whatever is left of max_tries_.
MayTryWithoutLastGroupAlways(tries) == TRUE

\* if (max_tries_ > 0), after the decrements for the first group and the rest.
MayTryWithoutLastGroup(tries) == tries > 0

Decided(r) == [decided |-> TRUE, result |-> r, first_group_only |-> <<>>, pos |-> 0]

\* After the candidate without its first group was tried.
InnerAfterTail(candidate, pos, tail) ==
  IF tail.found THEN Decided(tail)
  ELSE IF ~MayTryWithoutLastGroup(tail.max_tries - 1)
  THEN Decided(NoResult(tail.max_tries - 1, tail.log))
  ELSE [decided |-> FALSE, result |-> NoResult(tail.max_tries - 1, tail.log),
        first_group_only |-> CandidateBefore(candidate, pos), pos |-> pos]

\* After the first group alone was tried.
InnerAfterHead(txt, len, candidate, offset, pos, head) ==
  IF head.found THEN Decided(head)
  ELSE InnerAfterTail(candidate, pos,
         TryCandidate("tail", txt, len, CandidateAfter(candidate, pos),
                      WithoutFirstGroupOffset(offset, GroupStartIndex(candidate, pos)),
                      head.max_tries - 1, head.log))

\* After the first separator was looked for.
InnerAfterSeparator(txt, len, candidate, offset, tries, lg, sep) ==
  IF ~sep.found THEN Decided(NoResult(tries, lg))
  ELSE InnerAfterHead(txt, len, candidate, offset, sep.end,
         TryCandidate("head", txt, len, CandidateBefore(candidate, sep.end), offset,
                      tries, lg))

\* The first group alone, then the candidate without its first group.
InnerHeadAndTail(txt, len, candidate, offset, tries, lg) ==
  InnerAfterSeparator(txt, len, candidate, offset, tries, lg,
                      FindAndConsume(group_separator, candidate, 0))

\* A cursor left at the start of the separator found.
SeparatorCursorAtStart(m) == m.start

\* The cursor after a separator that FindAndConsume found.
SeparatorCursor(m) == m.end

\* while (group_separator_->FindAndConsume(candidate_input, NULL)) {}: the
\* cursor after the last separator.
RECURSIVE LastGroupStart(_, _)

AfterSeparator(candidate, pos, m) ==
  IF m.found THEN LastGroupStart(candidate, SeparatorCursor(m)) ELSE pos

LastGroupStart(candidate, pos) ==
  AfterSeparator(candidate, pos, FindAndConsume(group_separator, candidate, pos))

\* A candidate without its last group that is rejected and costs nothing.
InnerAfterWithoutLastKeepsTries(third) == third

\* After the candidate without its last group was tried.
InnerAfterWithoutLast(third) ==
  IF third.found THEN third ELSE NoResult(third.max_tries - 1, third.log)

\* The candidate without its last group tried even when it is the first
\* group, which was tried already.
InnerWithoutLastAgain(txt, len, candidate, offset, tries, lg, first_group_only, pos) ==
  InnerAfterWithoutLast(
    TryCandidate("without_last", txt, len, CandidateBefore(candidate, pos), offset,
                 tries, lg))

\* The candidate without its last group; pos is the cursor after the loop.
InnerWithoutLast(txt, len, candidate, offset, tries, lg, first_group_only, pos) ==
  IF CandidateBefore(candidate, pos) = first_group_only THEN NoResult(tries, lg)
  ELSE InnerAfterWithoutLast(
         TryCandidate("without_last", txt, len, CandidateBefore(candidate, pos),
                      offset, tries, lg))

\* The function from the loop over the separators on, b being how far the
\* part before it got.
InnerFromLoop(txt, len, candidate, offset, b) ==
  IF b.decided THEN b.result
  ELSE InnerWithoutLast(txt, len, candidate, offset, b.result.max_tries,
                        b.result.log, b.first_group_only,
                        LastGroupStart(candidate, b.pos))

ExtractInnerMatch(txt, len, candidate, offset, tries, lg) ==
  InnerFromLoop(txt, len, candidate, offset,
                InnerHeadAndTail(txt, len, candidate, offset, tries, lg))

(***************************************************************************)
(* ExtractMatch(candidate, offset, match)                                  *)
(***************************************************************************)

\* Time stamps skipped whatever follows them in the text.
IsSkippedWhateverFollows(txt, candidate, offset) ==
  \/ PartialMatch(pub_pages, candidate)
  \/ PartialMatch(slash_separated_dates, candidate)
  \/ PartialMatch(time_stamps, candidate)

\* Publication pages, slash-separated dates and time stamps are skipped.
IsSkippedByClassifier(txt, candidate, offset) ==
  \/ PartialMatch(pub_pages, candidate)
  \/ PartialMatch(slash_separated_dates, candidate)
  \/ /\ PartialMatch(time_stamps, candidate)
     /\ Consume(time_stamps_suffix, SubstrFrom(txt, offset + Len(candidate)), 0).found

\* After the whole candidate was tried.
ExtractAfterWhole(txt, len, candidate, offset, whole) ==
  IF whole.found THEN Decided(whole)
  ELSE InnerHeadAndTail(txt, len, candidate, offset, whole.max_tries, whole.log)

\* ExtractMatch up to the loop over the separators in ExtractInnerMatch.
ExtractMatchStart(txt, len, candidate, offset, tries, lg) ==
  IF IsSkippedByClassifier(txt, candidate, offset)
  THEN Decided(NoResult(tries,
                        Append(lg, Attempt("skipped", candidate, offset, tries, FALSE))))
  ELSE ExtractAfterWhole(txt, len, candidate, offset,
                         TryCandidate("whole", txt, len, candidate, offset, tries, lg))

ExtractMatch(txt, len, candidate, offset, tries, lg) ==
  InnerFromLoop(txt, len, candidate, offset,
                ExtractMatchStart(txt, len, candidate, offset, tries, lg))

(***************************************************************************)
(* Find(index, match): one iteration of the loop per candidate.            *)
(***************************************************************************)

\* A loop that does not look at max_tries_.
LoopContinuesAlways(tries) == TRUE

\* A loop that goes on with max_tries_ at zero.
LoopContinuesAtZero(tries) == tries >= 0

\* while ((max_tries_ > 0) && pattern_->FindAndConsume(text.get(), &candidate))
LoopContinues(tries) == tries > 0

\* The candidate that the match m of the phone pattern gives: its start in
\* text_, the candidate, and the cursor after it.
CandidateOf(txt, input, m) ==
  [found |-> m.found,
   start |-> Len(txt) - Len(SubstrFrom(input, m.end)) - (m.end - m.start),
   candidate |-> CaptureUpToSecondNumberStart(Substr(input, m.start, m.end - m.start)),
   cursor |-> m.end]

\* The next candidate of the phone pattern in the input, whose cursor is at pos.
NextCandidate(txt, input, pos) ==
  CandidateOf(txt, input, FindAndConsume(pattern, input, pos))

\* An iteration that found nothing and leaves max_tries_ as it is.
AfterRejectedCandidateKeepsTries(tries) == tries

\* An iteration that found nothing and takes two from max_tries_.
AfterRejectedCandidateTakesTwo(tries) == tries - 2

\* --max_tries_ at the end of an iteration that found nothing.
AfterRejectedCandidate(tries) == tries - 1

CandidateLog(lg, c, tries) ==
  Append(lg, Attempt("candidate", c.candidate, c.start, tries, FALSE))

RECURSIVE FindLoop(_, _, _, _, _, _)

\* The end of an iteration, r being what ExtractMatch gave.
FindAfterExtract(txt, len, input, cursor, r) ==
  IF r.found THEN r
  ELSE FindLoop(txt, len, input, cursor, AfterRejectedCandidate(r.max_tries), r.log)

\* The body of an iteration, c being the candidate.
FindBody(txt, len, input, tries, lg, c) ==
  IF ~c.found THEN NoResult(tries, lg)
  ELSE FindAfterExtract(txt, len, input, c.cursor,
         ExtractMatch(txt, len, c.candidate, c.start, tries,
                      CandidateLog(lg, c, tries)))

FindLoop(txt, len, input, pos, tries, lg) ==
  IF ~LoopContinues(tries) THEN NoResult(tries, lg)
  ELSE FindBody(txt, len, input, tries, lg, NextCandidate(txt, input, pos))

\* An input that starts at the start of text_ whatever the index.
FindInputFromStart(txt, index) == txt

\* The input of the loop: text_.substr(index).
FindInput(txt, index) == SubstrFrom(txt, index)

Find(txt, len, index, tries) ==
  FindLoop(txt, len, FindInput(txt, index), 0, tries, <<>>)

(***************************************************************************)
(* HasNext() and Next(match), each as one step.                            *)
(***************************************************************************)

\* The matcher after HasNext() got r from Find.
AfterFind(r, index, cached) ==
  IF ~r.found
  THEN [state |-> "DONE", search_index |-> index, max_tries |-> r.max_tries,
        last_match |-> cached, log |-> r.log, ran |-> TRUE]
  ELSE [state |-> "READY", search_index |-> MatchEnd(r.match[1]),
        max_tries |-> r.max_tries, last_match |-> r.match, log |-> r.log,
        ran |-> TRUE]

\* The matcher after a HasNext() that did not run Find.
WithoutFind(st, index, tries, cached) ==
  [state |-> st, search_index |-> index, max_tries |-> tries, last_match |-> cached,
   log |-> <<>>, ran |-> FALSE]

\* A HasNext() that runs Find in state READY too.
HasNextResultFindsWhenReady(txt, len, st, index, tries, cached) ==
  IF st # "DONE"
  THEN AfterFind(Find(txt, len, index, tries), index, cached)
  ELSE WithoutFind(st, index, tries, cached)

\* The matcher after HasNext(): Find runs only in state NOT_READY.
HasNextResult(txt, len, st, index, tries, cached) ==
  IF st = "NOT_READY"
  THEN AfterFind(Find(txt, len, index, tries), index, cached)
  ELSE WithoutFind(st, index, tries, cached)

\* A Next that sets state_ to NOT_READY before it looks at what HasNext gave.
StateAfterNextAlwaysReset(h) == "NOT_READY"

\* state_ when Next returns, h being the matcher after its HasNext().
StateAfterNext(h) == IF h.state = "READY" THEN "NOT_READY" ELSE h.state

Snapshot ==
  [state |-> state, search_index |-> search_index, max_tries |-> max_tries,
   last_match |-> last_match]

\* HasNext() returns, h being the matcher after it.
ReturnFromHasNext(h) ==
  /\ state' = h.state
  /\ search_index' = h.search_index
  /\ max_tries' = h.max_tries
  /\ last_match' = h.last_match
  /\ log' = (IF h.ran THEN h.log ELSE log)
  /\ call' = "HasNext"
  /\ ret' = (h.state = "READY")
  /\ emitted' = emitted

\* Next(match) returns, h being the matcher after its HasNext().
ReturnFromNext(h) ==
  /\ search_index' = h.search_index
  /\ max_tries' = h.max_tries
  /\ log' = (IF h.ran THEN h.log ELSE log)
  /\ call' = "Next"
  /\ state' = StateAfterNext(h)
  /\ IF h.state # "READY"
     THEN /\ ret' = FALSE
          /\ last_match' = h.last_match
          /\ emitted' = emitted
     ELSE /\ ret' = TRUE
          /\ emitted' = Append(emitted, h.last_match[1])
          /\ last_match' = <<>>

HasNext ==
  /\ pc = "idle"
  /\ ReturnFromHasNext(HasNextResult(text, leniency, state, search_index, max_tries,
                                     last_match))
  /\ before' = Snapshot
  /\ UNCHANGED <<text, leniency, budget, pc, frame>>

Next ==
  /\ pc = "idle"
  /\ ReturnFromNext(HasNextResult(text, leniency, state, search_index, max_tries,
                                  last_match))
  /\ before' = Snapshot
  /\ UNCHANGED <<text, leniency, budget, pc, frame>>

(***************************************************************************)
(* HasNext() and Next(match) step by step: a step per iteration of the     *)
(* loop of Find and per iteration of the loop over the separators in       *)
(* ExtractInnerMatch.  frame holds the locals: the call that is running,   *)
(* the cursor of the input of Find, the candidate, its offset and first    *)
(* group, the cursor of candidate_input, and the cursor after the          *)
(* candidate.                                                              *)
(***************************************************************************)

NoFrame == [pending |-> "none", cursor |-> 0, candidate |-> <<>>, offset |-> 0,
            first_group_only |-> <<>>, pos |-> 0, next_cursor |-> 0]

Return(which, h) ==
  IF which = "HasNext" THEN ReturnFromHasNext(h) ELSE ReturnFromNext(h)

\* HasNext() or Next(match) is called: Find starts in state NOT_READY, and
\* the call returns at once in the other states.
Enter(which) ==
  /\ before' = Snapshot
  /\ IF state = "NOT_READY"
     THEN /\ pc' = "loop"
          /\ frame' = [NoFrame EXCEPT !.pending = which]
          /\ log' = <<>>
          /\ UNCHANGED <<state, search_index, max_tries, last_match, call, ret,
                         emitted>>
     ELSE /\ Return(which, WithoutFind(state, search_index, max_tries, last_match))
          /\ UNCHANGED <<pc, frame>>
  /\ UNCHANGED <<text, leniency, budget>>

CallHasNext ==
  /\ pc = "idle"
  /\ Enter("HasNext")

CallNext ==
  /\ pc = "idle"
  /\ Enter("Next")

\* Find returns r to the call that is running, and the call returns.
FindReturns(r) ==
  /\ Return(frame.pending, AfterFind(r, search_index, last_match))
  /\ pc' = "idle"
  /\ frame' = NoFrame

\* An iteration of the loop of Find ends without a match.
NextIteration(r, cursor) ==
  /\ max_tries' = AfterRejectedCandidate(r.max_tries)
  /\ log' = r.log
  /\ frame' = [NoFrame EXCEPT !.pending = frame.pending, !.cursor = cursor]
  /\ pc' = "loop"
  /\ UNCHANGED <<state, last_match, search_index, call, ret, emitted>>

\* ExtractInnerMatch reaches its loop over the separators.
EnterSeparators(c, b) ==
  /\ max_tries' = b.result.max_tries
  /\ log' = b.result.log
  /\ frame' = [frame EXCEPT !.candidate = c.candidate, !.offset = c.start,
                            !.first_group_only = b.first_group_only,
                            !.pos = b.pos, !.next_cursor = c.cursor]
  /\ pc' = "separators"
  /\ UNCHANGED <<state, last_match, search_index, call, ret, emitted>>

\* The iteration for candidate c, b being how far ExtractMatch got before the
\* loop over the separators.
IterationAfterStart(c, b) ==
  IF ~b.decided THEN EnterSeparators(c, b)
  ELSE IF b.result.found THEN FindReturns(b.result)
  ELSE NextIteration(b.result, c.cursor)

IterationWith(c) ==
  IF ~c.found THEN FindReturns(NoResult(max_tries, log))
  ELSE IterationAfterStart(c,
         ExtractMatchStart(text, leniency, c.candidate, c.start, max_tries,
                           CandidateLog(log, c, max_tries)))

\* One iteration of the loop of Find, up to the loop over the separators.
FindStep ==
  /\ pc = "loop"
  /\ IF ~LoopContinues(max_tries) THEN FindReturns(NoResult(max_tries, log))
     ELSE IterationWith(NextCandidate(text, FindInput(text, search_index),
                                      frame.cursor))
  /\ UNCHANGED <<text, leniency, budget, before>>

\* The iteration of Find after the loop over the separators.
IterationAfterLoop(r) ==
  IF r.found THEN FindReturns(r) ELSE NextIteration(r, frame.next_cursor)

SeparatorWith(m) ==
  IF m.found
  THEN /\ frame' = [frame EXCEPT !.pos = SeparatorCursor(m)]
       /\ UNCHANGED <<max_tries, state, last_match, search_index, call, ret, emitted,
                      log, pc>>
  ELSE IterationAfterLoop(
         InnerWithoutLast(text, leniency, frame.candidate, frame.offset, max_tries,
                          log, frame.first_group_only, frame.pos))

\* One test of the loop over the separators, and what follows the loop when
\* the test fails.
SeparatorStep ==
  /\ pc = "separators"
  /\ SeparatorWith(FindAndConsume(group_separator, frame.candidate, frame.pos))
  /\ UNCHANGED <<text, leniency, budget, before>>

(***************************************************************************)
(* The texts, leniencies and budgets the matcher is constructed with.      *)
(***************************************************************************)

\* A text is made of at most MaxParts phrases.
MaxParts == 2

\* The budgets a matcher is constructed with are 0..MaxTries.
MaxTries == 3

Vocabulary ==
  {<<"2", "1", "2">>, <<" ", "2", "1", "2">>, <<"1", "1">>, <<"2", " ", "1", "2">>,
   <<"+", "2", "2", "2", "1">>}

RECURSIVE TextsOf(_)
TextsOf(n) ==
  IF n = 0 THEN {<<>>}
  ELSE LET shorter == TextsOf(n - 1)
       IN shorter \cup {t \o p : t \in shorter, p \in Vocabulary}

Texts == TextsOf(MaxParts)

\* PhoneNumberMatcher(util, text, region_code, leniency, max_tries)
Init ==
  /\ text \in Texts
  /\ leniency \in Leniencies
  /\ budget \in 0..MaxTries
  /\ max_tries = budget
  /\ state = "NOT_READY"
  /\ last_match = <<>>
  /\ search_index = 0
  /\ call = "none"
  /\ ret = FALSE
  /\ emitted = <<>>
  /\ log = <<>>
  /\ before = [state |-> "NOT_READY", search_index |-> 0, max_tries |-> budget,
               last_match |-> <<>>]
  /\ pc = "idle"
  /\ frame = NoFrame

\* The matcher with each call as one step.
NextStep == HasNext \/ Next

Spec == Init /\ [][NextStep]_vars

\* A date, a publication page and a time stamp.
ClassifierVocabulary ==
  {<<"1", "/", "2", "/", "1", "2">>, <<"1", "-", "2", "(", "1">>,
   <<"2", "1", "2", "0", "1", "2", "1", "2", " ", "1", "2">>}

\* What follows them: nothing, minutes that have a number in them, a colon
\* and one digit, and a number after a space.
ClassifierEndings ==
  {<<>>, <<":", "2", "1", "2">>, <<":", "2">>, <<" ", "2", "1", "2">>}

ClassifierTexts == {p \o e : p \in ClassifierVocabulary, e \in ClassifierEndings}

\* PhoneNumberMatcher(util, text, region_code, leniency, max_tries)
ClassifierInit ==
  /\ text \in ClassifierTexts
  /\ leniency \in Leniencies
  /\ budget \in 0..MaxTries
  /\ max_tries = budget
  /\ state = "NOT_READY"
  /\ last_match = <<>>
  /\ search_index = 0
  /\ call = "none"
  /\ ret = FALSE
  /\ emitted = <<>>
  /\ log = <<>>
  /\ before = [state |-> "NOT_READY", search_index |-> 0, max_tries |-> budget,
               last_match |-> <<>>]
  /\ pc = "idle"
  /\ frame = NoFrame

\* The matcher with each call as one step, on these texts.
ClassifierSpec == ClassifierInit /\ [][NextStep]_vars

\* The matcher step by step.
StepNext == CallHasNext \/ CallNext \/ FindStep \/ SeparatorStep

\* SeparatorStep changes the state: its test fails, or moves the cursor.
SeparatorStepChanges ==
  \A m \in {FindAndConsume(group_separator, frame.candidate, frame.pos)} :
    m.found => SeparatorCursor(m) # frame.pos

\* A call that is running goes on. This is weak fairness of FindStep and of
\* SeparatorStep with their enabling written out: FindStep changes the state
\* whenever pc is "loop", and SeparatorStep when pc is "separators" and
\* SeparatorStepChanges.
RunningCallGoesOn ==
  /\ []<>(pc # "loop") \/ []<><<FindStep>>_vars
  /\ []<>(~(pc = "separators" /\ SeparatorStepChanges)) \/ []<><<SeparatorStep>>_vars

\* The caller goes on calling Next.
StepSpec ==
  /\ Init
  /\ [][StepNext]_vars
  /\ WF_vars(CallNext)
  /\ RunningCallGoesOn

(***************************************************************************)
(* The properties.                                                         *)
(***************************************************************************)

\* The calls of ParseAndVerify in the log.
IsParseAndVerify(e) == e.kind \in {"whole", "head", "tail", "without_last"}

\* C1: the matches Next hands out each have a raw_string that is not empty,
\* and each starts at or after the end of the one handed out before it, so
\* they come in strictly increasing order of start and never overlap.
C1_EmittedInOrder ==
  \A k \in 1..Len(emitted) :
    /\ Len(emitted[k].raw_string) > 0
    /\ k > 1 =>
         /\ emitted[k].start >=
              emitted[k - 1].start + Len(emitted[k - 1].raw_string)
         /\ emitted[k].start > emitted[k - 1].start

\* Two matches have been handed out.
C1_TwoEmitted == Len(emitted) >= 2

\* C2: the raw_string of every match handed out is the part of the text from
\* the start of the match, of the length of raw_string, whichever attempt
\* (whole candidate, first group, rest, without the last group) made it.
C2_RawStringIsInText ==
  \A k \in 1..Len(emitted) :
    /\ emitted[k].start >= 0
    /\ emitted[k].start + Len(emitted[k].raw_string) <= Len(text)
    /\ emitted[k].raw_string =
         [j \in 1..Len(emitted[k].raw_string) |-> text[emitted[k].start + j]]

\* The match handed out last is the candidate without its first group, found
\* behind the start of the candidate.
C2_RestEmitted ==
  /\ emitted # <<>>
  /\ \E k \in 1..Len(log) :
       /\ log[k].kind = "tail"
       /\ log[k].ok
       /\ log[k].offset = emitted[Len(emitted)].start
       /\ log[k].candidate = emitted[Len(emitted)].raw_string
       /\ \E j \in 1..Len(log) : log[j].kind = "whole" /\ log[j].offset < log[k].offset

\* The matches handed out for txt at leniency len, r being what Find gave.
RECURSIVE MatchesFrom(_, _, _, _)

MatchesAfter(txt, len, r) ==
  IF r.found
  THEN {r.match[1]} \cup MatchesFrom(txt, len, MatchEnd(r.match[1]), r.max_tries)
  ELSE {}

MatchesFrom(txt, len, index, tries) ==
  MatchesAfter(txt, len, Find(txt, len, index, tries))

\* C3: for the text and the budget of the matcher, every match handed out at
\* EXACT_GROUPING is handed out at STRICT_GROUPING, and every match handed
\* out at STRICT_GROUPING is handed out at VALID.
C3_LeniencyMonotone ==
  /\ MatchesFrom(text, "EXACT_GROUPING", 0, budget)
       \subseteq MatchesFrom(text, "STRICT_GROUPING", 0, budget)
  /\ MatchesFrom(text, "STRICT_GROUPING", 0, budget)
       \subseteq MatchesFrom(text, "VALID", 0, budget)

\* C4, as the claim states it: max_tries_ is never negative between calls.
C4_NeverNegative == max_tries >= 0

\* C4: between calls max_tries_ is not negative as long as the state is not
\* DONE; the scan that ends in DONE can leave it at -1 or -2.
C4_NotNegativeUntilDone ==
  /\ state # "DONE" => max_tries >= 0
  /\ max_tries >= -2

\* The scan has ended with max_tries_ at -2.
C4_DoneBelowZero == state = "DONE" /\ max_tries = -2

\* C5, as the claim states it: no candidate is taken and no ParseAndVerify
\* call is made with max_tries_ at zero or below.
C5_NothingAtZero ==
  \A k \in 1..Len(log) :
    (log[k].kind = "candidate" \/ IsParseAndVerify(log[k])) => log[k].tries > 0

\* C5: with max_tries_ at zero or below no candidate is taken from the text,
\* and neither the whole candidate, nor its first group, nor the candidate
\* without its last group is tried; the candidate without its first group is
\* still tried with max_tries_ at zero, never below, and can give a match.
C5_OnlyTheRestAtZero ==
  \A k \in 1..Len(log) :
    /\ log[k].kind \in {"candidate", "whole", "head", "without_last"}
         => log[k].tries > 0
    /\ log[k].kind = "tail" => log[k].tries >= 0

\* The candidate without its first group was tried with max_tries_ at zero
\* and gave the match.
C5_RestMatchedAtZero ==
  /\ state = "READY"
  /\ max_tries = 0
  /\ \E k \in 1..Len(log) : log[k].kind = "tail" /\ log[k].tries = 0 /\ log[k].ok

\* C6: a call made in state DONE leaves the state DONE, returns false and
\* hands out nothing; and the state changes only from NOT_READY to READY,
\* from NOT_READY to DONE and from READY to NOT_READY.
C6_DoneIsTerminal ==
  [][/\ state = "DONE" => state' = "DONE" /\ ~ret' /\ emitted' = emitted
     /\ state' # state =>
          <<state, state'>> \in {<<"NOT_READY", "READY">>, <<"NOT_READY", "DONE">>,
                                 <<"READY", "NOT_READY">>}]_vars

\* Next was called in state DONE.
C6_CalledWhenDone == state = "DONE" /\ before.state = "DONE" /\ call = "Next"

\* What an iteration of a loop leaves of its input: the loop of Find moves
\* its cursor forward or takes from max_tries_.
C7_FindLoopAdvances ==
  (pc # "idle" /\ pc' = "loop") =>
    frame'.cursor > frame.cursor \/ max_tries' < max_tries

\* The loop over the separators moves the cursor of the candidate forward
\* each time its test finds a separator.
C7_SeparatorLoopAdvances ==
  pc = "separators" =>
    \A m \in {FindAndConsume(group_separator, frame.candidate, frame.pos)} :
      m.found => SeparatorCursor(m) > frame.pos

\* C7: each iteration of the loop of Find and of the loop over the separators
\* consumes input or takes from max_tries_, and a caller that goes on calling
\* Next gets to state DONE, each of its calls having returned.
C7_Terminates ==
  /\ [][C7_FindLoopAdvances]_vars
  /\ []C7_SeparatorLoopAdvances
  /\ <>(state = "DONE" /\ pc = "idle")

\* The scan went through the loop over the separators and ended in DONE.
C7_DoneAfterSeparators ==
  /\ state = "DONE"
  /\ pc = "idle"
  /\ \E k \in 1..Len(log) : log[k].kind = "without_last"

\* C8: HasNext called in a state other than NOT_READY changes neither the
\* state, nor search_index_, nor max_tries_, nor the cached match, and
\* returns whether the state is READY; HasNext called after HasNext returns
\* what that one returned; and Next called in state READY hands out the
\* cached match and leaves search_index_ and max_tries_ alone.
C8_HasNextIdempotent ==
  [][/\ (call' = "HasNext" /\ state # "NOT_READY") =>
          /\ UNCHANGED <<state, search_index, max_tries, last_match>>
          /\ ret' = (state = "READY")
     /\ (call = "HasNext" /\ call' = "HasNext") =>
          /\ UNCHANGED <<state, search_index, max_tries, last_match>>
          /\ ret' = ret
     /\ (call' = "Next" /\ state = "READY") =>
          /\ ret'
          /\ emitted' = Append(emitted, last_match[1])
          /\ UNCHANGED <<search_index, max_tries>>]_vars

\* HasNext was called in state READY.
C8_CalledWhenReady ==
  call = "HasNext" /\ before.state = "READY" /\ state = "READY" /\ ret

\* C9: a matcher constructed with max_tries 0 hands out no match and caches
\* none, takes no candidate from the text, and after its first call is in
\* state DONE, the call having returned false.
C9_NothingWithoutBudget ==
  budget = 0 =>
    /\ emitted = <<>>
    /\ last_match = <<>>
    /\ state # "READY"
    /\ log = <<>>
    /\ call # "none" => state = "DONE" /\ ~ret

\* A matcher constructed with max_tries 0 was called on a text in which a
\* budget of one finds a match.
C9_CalledWithoutBudget ==
  /\ budget = 0
  /\ call = "HasNext"
  /\ state = "DONE"
  /\ Find(text, leniency, 0, 1).found

\* C10: search_index_ never goes back, and it changes only in a call that
\* caches a match, to the end of that match.
C10_SearchIndexMonotone ==
  [][/\ search_index' >= search_index
     /\ search_index' # search_index =>
          /\ call' = "HasNext" =>
               /\ state' = "READY"
               /\ last_match' # <<>>
               /\ search_index' =
                    last_match'[1].start + Len(last_match'[1].raw_string)
          /\ call' = "Next" =>
               /\ Len(emitted') = Len(emitted) + 1
               /\ search_index' =
                    emitted'[Len(emitted')].start
                      + Len(emitted'[Len(emitted')].raw_string)]_vars

\* search_index_ has moved twice.
C10_MovedTwice == before.search_index > 0 /\ search_index > before.search_index

\* The attempts of ExtractInnerMatch in the log.
IsPeel(e) == e.kind \in {"head", "tail", "without_last"}

\* The last entry of the log that belongs to the candidate logged at k.
LastOfCandidate(k) ==
  CHOOSE j \in k..Len(log) :
    /\ \A i \in (k + 1)..j : log[i].kind # "candidate"
    /\ j = Len(log) \/ log[j + 1].kind = "candidate"

\* max_tries_ after the entry at j: when the next entry was logged, or when
\* Find returned.
TriesAfter(j) == IF j < Len(log) THEN log[j + 1].tries ELSE max_tries

\* The entries of the candidate logged at k that are ParseAndVerify calls
\* of the kinds given and rejected.
RejectedOf(k, kinds) ==
  {i \in k..LastOfCandidate(k) : log[i].kind \in kinds /\ ~log[i].ok}

\* Whether the candidate logged at k gave the match.
Accepted(k) == \E i \in k..LastOfCandidate(k) : log[i].ok

\* C11, as the claim states it: over one candidate max_tries_ drops by the
\* number of ParseAndVerify calls that rejected, the whole candidate counted.
C11_DropIsRejectedAttempts ==
  \A k \in 1..Len(log) :
    log[k].kind = "candidate" =>
      log[k].tries - TriesAfter(LastOfCandidate(k)) =
        Cardinality(RejectedOf(k, {"whole", "head", "tail", "without_last"}))

\* C11: each attempt of ExtractInnerMatch that rejects (first group, rest,
\* without the last group) takes one from max_tries_ at once; the whole
\* candidate rejected takes nothing by itself.  Over one candidate
\* max_tries_ drops by the number of such attempts rejected, and by one more
\* when the candidate gave no match.
C11_DropIsRejectedPeels ==
  \A k \in 1..Len(log) :
    /\ log[k].kind = "candidate" =>
         log[k].tries - TriesAfter(LastOfCandidate(k)) =
           Cardinality(RejectedOf(k, {"head", "tail", "without_last"}))
             + (IF Accepted(k) THEN 0 ELSE 1)
    /\ (k < Len(log) /\ IsPeel(log[k + 1])) =>
         /\ ~log[k].ok
         /\ log[k + 1].tries = log[k].tries - (IF IsPeel(log[k]) THEN 1 ELSE 0)

\* The whole candidate and its first group were rejected and the rest gave
\* the match: two calls rejected, one taken from max_tries_.
C11_TwoRejectedOneTaken ==
  /\ state = "READY"
  /\ before.max_tries - max_tries = 1
  /\ \E k \in 1..Len(log) :
       /\ log[k].kind = "tail" /\ log[k].ok
       /\ log[k - 1].kind = "head" /\ ~log[k - 1].ok
       /\ log[k - 2].kind = "whole" /\ ~log[k - 2].ok

\* C12, as the claim states it: after Find has handled a candidate,
\* max_tries_ is one less than before, whether it gave a match or not.
C12_OnePerCandidate ==
  \A k \in 1..Len(log) :
    log[k].kind = "candidate" =>
      log[k].tries - TriesAfter(LastOfCandidate(k)) = 1

\* C12: the loop of Find takes one from max_tries_ for each candidate that
\* gave no match, after what ExtractInnerMatch took for it, and nothing for
\* the candidate that gave the match: a candidate rejected without an
\* attempt of ExtractInnerMatch costs exactly one, a candidate accepted as a
\* whole costs nothing.
C12_LoopTakesOneIfRejected ==
  \A k \in 1..Len(log) :
    log[k].kind = "candidate" =>
      \A j \in {LastOfCandidate(k)} :
        /\ j > k
        /\ log[j].ok => j = Len(log) /\ max_tries = log[j].tries
        /\ (~log[j].ok /\ ~IsPeel(log[j])) => TriesAfter(j) = log[k].tries - 1
        /\ (~log[j].ok /\ IsPeel(log[j])) => TriesAfter(j) = log[j].tries - 2
        /\ (log[j].ok /\ log[j].kind = "whole") => max_tries = log[k].tries

\* Find went through two candidates, the first of which was rejected as a
\* whole and cost one, and the second of which was accepted as a whole and
\* cost nothing.
C12_RejectedThenAccepted ==
  /\ state = "READY"
  /\ Len(log) = 4
  /\ log[1].kind = "candidate" /\ log[2].kind = "whole" /\ ~log[2].ok
  /\ log[3].kind = "candidate" /\ log[3].tries = log[1].tries - 1
  /\ log[4].kind = "whole" /\ log[4].ok
  /\ max_tries = log[3].tries

\* The candidate without its last group, as ExtractInnerMatch makes it.
WithoutLastGroup(candidate) ==
  CandidateBefore(candidate, LastGroupStart(candidate, 0))

\* What follows in the log the rest of a candidate that was rejected at k:
\* the candidate without its last group if max_tries_ is still above zero
\* and it is not the first group, and otherwise nothing more for this
\* candidate and nothing more taken than for the rest and by the loop.
C13_AfterRejectedRest(k) ==
  IF /\ log[k].tries - 1 > 0
     /\ WithoutLastGroup(log[k - 2].candidate) # log[k - 1].candidate
  THEN /\ k < Len(log)
       /\ log[k + 1].kind = "without_last"
       /\ log[k + 1].candidate = WithoutLastGroup(log[k - 2].candidate)
  ELSE /\ k < Len(log) => log[k + 1].kind = "candidate"
       /\ TriesAfter(k) = log[k].tries - 2

\* C13: ExtractInnerMatch runs only after the whole candidate was rejected,
\* tries the first group, then the rest, then the candidate without its last
\* group, and the first of them that is accepted is what is returned.  With
\* no separator in the candidate nothing is tried and nothing taken from
\* max_tries_; the rest is tried whatever max_tries_ is; the candidate
\* without its last group is tried only with max_tries_ above zero after the
\* two decrements, and not at all, at no cost, when it is the first group.
C13_PeelsInOrder ==
  \A k \in 1..Len(log) :
    /\ log[k].ok => k = Len(log)
    /\ log[k].kind = "head" =>
         /\ log[k - 1].kind = "whole" /\ ~log[k - 1].ok
         /\ log[k].tries = log[k - 1].tries
    /\ log[k].kind = "tail" =>
         /\ log[k - 1].kind = "head" /\ ~log[k - 1].ok
         /\ log[k].tries = log[k - 1].tries - 1
    /\ log[k].kind = "without_last" =>
         /\ log[k - 1].kind = "tail" /\ ~log[k - 1].ok
         /\ log[k].tries = log[k - 1].tries - 1
         /\ log[k].tries > 0
         /\ log[k].candidate # log[k - 2].candidate
    /\ (log[k].kind = "whole" /\ ~log[k].ok) =>
         IF FindAndConsume(group_separator, log[k].candidate, 0).found
         THEN k < Len(log) /\ log[k + 1].kind = "head"
         ELSE /\ k < Len(log) => log[k + 1].kind = "candidate"
              /\ TriesAfter(k) = log[k].tries - 1
    /\ (log[k].kind = "head" /\ ~log[k].ok) =>
         k < Len(log) /\ log[k + 1].kind = "tail"
    /\ (log[k].kind = "tail" /\ ~log[k].ok) => C13_AfterRejectedRest(k)

\* The rest of a candidate of two groups was rejected with max_tries_ still
\* above zero after it, and no third attempt was made.
C13_TwoGroupsNoThird ==
  \E k \in 1..Len(log) :
    /\ log[k].kind = "tail" /\ ~log[k].ok
    /\ log[k].tries - 1 > 0
    /\ k = Len(log) \/ log[k + 1].kind = "candidate"
    /\ WithoutLastGroup(log[k - 2].candidate) = log[k - 1].candidate

\* The first separator of the candidate that the attempt at k is part of,
\* k being the attempt of the rest.
C14_FirstSeparator(k) == FindAndConsume(group_separator, log[k - 2].candidate, 0)

\* C14 as stated: the first group is the candidate up to the start of its
\* first separator, without unwanted characters at its end, and the rest,
\* which is what follows the separator, is tried at the offset of the
\* candidate plus the length of what is before the separator.
C14_RestAtSeparator ==
  \A k \in 1..Len(log) :
    log[k].kind = "tail" =>
      /\ log[k - 1].candidate =
           TrimUnwantedEndChars(
             Substr(log[k - 2].candidate, 0, C14_FirstSeparator(k).start))
      /\ log[k - 1].offset = log[k - 2].offset
      /\ log[k].candidate =
           TrimUnwantedEndChars(
             SubstrFrom(log[k - 2].candidate, C14_FirstSeparator(k).end))
      /\ log[k].offset = log[k - 2].offset + C14_FirstSeparator(k).start

\* C14: the first group is the candidate up to the end of its first
\* separator, without unwanted characters at its end, tried at the offset of
\* the candidate; the rest is what follows the separator, without unwanted
\* characters at its end, tried at the offset of the candidate plus the
\* length of the candidate up to the end of the separator, which is where
\* the rest is in the text.
C14_RestAfterSeparator ==
  \A k \in 1..Len(log) :
    log[k].kind = "tail" =>
      /\ C14_FirstSeparator(k).found
      /\ log[k - 1].candidate =
           TrimUnwantedEndChars(
             Substr(log[k - 2].candidate, 0, C14_FirstSeparator(k).end))
      /\ log[k - 1].offset = log[k - 2].offset
      /\ log[k].candidate =
           TrimUnwantedEndChars(
             SubstrFrom(log[k - 2].candidate, C14_FirstSeparator(k).end))
      /\ log[k].offset = log[k - 2].offset + C14_FirstSeparator(k).end
      /\ Substr(text, log[k].offset, Len(log[k].candidate)) = log[k].candidate

\* The rest of a candidate was tried, behind a first group that is not empty
\* and a separator.
C14_RestTried ==
  \E k \in 1..Len(log) :
    /\ log[k].kind = "tail"
    /\ C14_FirstSeparator(k).start > 0
    /\ C14_FirstSeparator(k).end > C14_FirstSeparator(k).start
    /\ log[k].candidate # <<>>

\* The candidate at k is one that ExtractMatch is to skip: it has a
\* publication page or a slash-separated date in it, or it has a time stamp
\* at its end and the text goes on with the minutes.
C15_ToBeSkipped(k) ==
  \/ PartialMatch(pub_pages, log[k].candidate)
  \/ PartialMatch(slash_separated_dates, log[k].candidate)
  \/ /\ PartialMatch(time_stamps, log[k].candidate)
     /\ Consume(time_stamps_suffix,
                SubstrFrom(text, log[k].offset + Len(log[k].candidate)), 0).found

\* C15: a candidate that is to be skipped gives no match and is not handed
\* to ParseAndVerify, neither as a whole nor in parts; it costs one unit of
\* max_tries_, and the loop goes on with the next candidate behind it, if
\* max_tries_ allows and the text has one.  Any other candidate, a time stamp
\* that the minutes do not follow among them, is handed to ParseAndVerify as
\* a whole.
C15_SkippedUnverified ==
  \A k \in 1..Len(log) :
    /\ log[k].kind = "skipped" => log[k - 1].kind = "candidate" /\ C15_ToBeSkipped(k - 1)
    /\ log[k].kind = "candidate" =>
         /\ k < Len(log)
         /\ log[k + 1].candidate = log[k].candidate
         /\ log[k + 1].offset = log[k].offset
         /\ log[k + 1].tries = log[k].tries
         /\ IF C15_ToBeSkipped(k)
            THEN /\ log[k + 1].kind = "skipped"
                 /\ ~log[k + 1].ok
                 /\ TriesAfter(k + 1) = log[k].tries - 1
                 /\ IF k + 1 < Len(log)
                    THEN /\ log[k + 2].kind = "candidate"
                         /\ log[k + 2].offset >= log[k].offset + Len(log[k].candidate)
                    ELSE \/ log[k].tries - 1 <= 0
                         \/ ~FindAndConsume(
                               pattern,
                               SubstrFrom(text, log[k].offset + Len(log[k].candidate)),
                               0).found
            ELSE log[k + 1].kind = "whole"

\* A time stamp that the minutes follow was skipped, and the number behind
\* it is the match.
C15_SkippedThenMatched ==
  /\ state = "READY"
  /\ \E k \in 1..Len(log) :
       /\ log[k].kind = "skipped"
       /\ PartialMatch(time_stamps, log[k].candidate)
       /\ ~PartialMatch(pub_pages, log[k].candidate)
       /\ ~PartialMatch(slash_separated_dates, log[k].candidate)
       /\ k + 1 < Len(log)
       /\ log[Len(log)].ok

\* C16: no call raises max_tries_, and a matcher constructed with max_tries
\* at zero or above never has it below -2: a candidate is taken only with
\* max_tries_ above zero, every attempt is made with max_tries_ at zero or
\* above, and after a candidate max_tries_ is at -2 or above.
C16_NeverUpNeverBelowMinusTwo ==
  /\ [][max_tries' <= max_tries]_vars
  /\ [](/\ budget >= 0
        /\ max_tries >= -2
        /\ max_tries <= budget
        /\ \A k \in 1..Len(log) :
             /\ log[k].tries >= 0
             /\ log[k].kind = "candidate" =>
                  /\ log[k].tries >= 1
                  /\ TriesAfter(LastOfCandidate(k)) >= -2)

\* One call took max_tries_ from 1 to -2.
C16_OvershotByTwo == before.max_tries = 1 /\ max_tries = -2

====
